---- MODULE Spec2Model ----
(***************************************************************************)
(* Guidance request pipeline of sage_v2: SageDataService (data-service.js),*)
(* SageAPI.generateResponse / callOllama (api.js) and the connection       *)
(* probing of Config (config.js).                                          *)
(*                                                                         *)
(* Time is counted in seconds.  Every setTimeout of the code is a          *)
(* countdown; Tick advances the clock by one second (to the next deadline *)
(* when the network is stable) and a timer callback runs when its         *)
(* countdown is 0.  A network response may arrive in any state, so every  *)
(* order of responses and timers occurs.                                   *)
(* One action is one browser task together with the microtasks (promise    *)
(* continuations) it triggers.                                             *)
(***************************************************************************)
EXTENDS Integers, Sequences, FiniteSets, TLC

\* ------------------------------------------------------------------ bounds
\* the calls of processUserInput that may overlap against a stable network
MaxReq == 2

\* the calls of processUserInput made against an arbitrary network
FreeCalls == 1

Reqs == 1..MaxReq

\* --------------------------------------------------------------- constants
ProbeTimeoutS == 3
SafeCallTimeoutS == 30
FreshS == 60
maxAttempts == 3

attemptTimeouts == <<60, 120, 240>>

keys == <<"aiResponse", "benefits", "products">>

Keys == {"aiResponse", "benefits", "products"}

\* Config.autoDiscoverHost candidates, in order
candidates == <<"http://localhost:11434", "http://localhost:11435", "http://origin/ollama", "http://127.0.0.1:11434">>

DefaultHost == "http://localhost:3000/ollama"

ResetHost == "http://localhost:11435"

\* the hosts that start with 'http'
HttpHosts == {DefaultHost, ResetHost} \cup {candidates[i] : i \in 1..4}

VARIABLES
  env,              \* the surroundings: how often the user submits and how the network behaves
  configHost,       \* Config.config.OLLAMA_HOST
  connectionState,  \* SageDataService.connectionState; lastChecked is kept as an age in seconds, -1 = null
  abortController,  \* id of the request whose AbortController is stored, 0 = null
  aborted,          \* aborted[r]: signal.aborted of request r's controller
  cache,            \* sessionStorage 'sageResponse': <<>> or <<responseData>>
  writes,           \* ids of the requests that called storeResponse, in order
  issued,           \* number of processUserInput calls made so far
  pc,               \* position of each processUserInput call
  demo,             \* userInput.toLowerCase() === 'demo'
  probe,            \* the probe chain of validateConnection of each call
  sub,              \* the three safeAPICall promises of each call
  order,            \* keys of each call in the order their promises settled
  armed,            \* ids of the calls in the order they armed their safeAPICall timers
  timer30,          \* countdown of the safeAPICall timers of each call (armed together), -1 = none that can still settle a promise
  call,             \* the callOllama invocation made by generateResponse
  prod,             \* position of getProductRecommendations
  result,           \* what processUserInput resolved to: <<>> or <<result>>
  now,              \* Date.now() in ms, as the readers and writers of the cache see it
  got,              \* the last call of getCachedResponse: who called, what was stored, what it returned
  search,           \* a call of getProductRecommendations: what the inventory source gave, what it returned
  built             \* a call of buildProductSearchSpec: the query, what the model answered, the spec

vars == <<env, configHost, connectionState, abortController, aborted, cache, writes, issued,
          pc, demo, probe, sub, order, armed, timer30, call, prod, result, now, got, search, built>>

\* ---------------------------------------------------------------- helpers
Min(S) == CHOOSE x \in S : \A y \in S : x <= y

\* Config.hasOllamaConnection: the host is set and starts with 'http'
hasOllamaConnection(host) == host \in HttpHosts

\* ------------------------------------------------- pure parts of the code
\* SageAPI.getBenefitsForExperience: the canned benefit list of the level
getBenefitsForExperience == "benefitList"

\* SageAPI.getFallbackResponse: the canned text generateResponse returns on any error
getFallbackResponse == "cannedFallbackText"

\* SageDataService.getFallbackData
getFallbackData(dataType) ==
  CASE dataType = "aiResponse" -> "backupSystemsText"
    [] dataType = "benefits" -> getBenefitsForExperience
    [] dataType = "products" -> "emptyList"

\* the errors a callOllama attempt can catch: name and the words of the message
\* that the classification looks for
AbortError == [kind |-> "abort", name |-> "AbortError", timeoutWord |-> FALSE, fetchWord |-> FALSE]

NetworkError(fw) == [kind |-> "network", name |-> "TypeError", timeoutWord |-> FALSE, fetchWord |-> fw]

\* new Error(`Ollama API error: ${response.status} - ${errorText}`); tw: errorText contains 'timeout'
StatusError(tw) == [kind |-> "status", name |-> "Error", timeoutWord |-> tw, fetchWord |-> FALSE]

MissingFieldError == [kind |-> "malformed", name |-> "Error", timeoutWord |-> FALSE, fetchWord |-> FALSE]

isAbort(e) == e.name = "AbortError" \/ e.timeoutWord

isNetwork(e) == e.name = "TypeError" /\ e.fetchWord

\* attemptTimeouts.slice(0, attempt).reduce((a, b) => a + b, 0) / 1000
RECURSIVE sumTimeouts(_)
sumTimeouts(attempt) == IF attempt = 0 THEN 0 ELSE attemptTimeouts[attempt] + sumTimeouts(attempt - 1)

\* the error callOllama throws for the error that ended its last attempt; afterS is
\* the number of seconds its message names, -1 when it names none
friendlyError(e, attempt) ==
  IF e.name = "AbortError"
    THEN [message |-> "Ollama request timed out after", afterS |-> sumTimeouts(attempt)]
  ELSE IF e.name = "TypeError"
    THEN IF e.fetchWord
           THEN [message |-> "Cannot connect to Ollama server", afterS |-> -1]
         ELSE [message |-> "Network error", afterS |-> -1]
  ELSE [message |-> e.kind, afterS |-> -1]

\* the wait before the next attempt, in seconds: 1000 * attempt ms
backoffFixed(attempt) == 1

backoff(attempt) == 1 * attempt

\* the retry decision of the catch block of callOllama
retryable(e, attempt) == (isAbort(e) \/ isNetwork(e)) /\ attempt < maxAttempts

\* Promise.all instead: rejected by the first rejection
promiseAll(s) ==
  IF \E k \in Keys : s[k].status = "rejected" THEN "rejected"
  ELSE IF \A k \in Keys : s[k].status # "pending" THEN "resolved" ELSE "pending"

\* Promise.allSettled: resolved when no input promise is pending, never rejected
allSettled(s) == IF \A k \in Keys : s[k].status # "pending" THEN "resolved" ELSE "pending"

\* results collected in the order the promises settled
resultsInSettleOrder(s, ord) == [i \in 1..3 |-> s[ord[i]]]

\* the results array of Promise.allSettled: one entry per input promise, in input order
allSettledResults(s, ord) == [i \in 1..3 |-> s[keys[i]]]

\* the forEach of executeParallelRequests
mergeResults(results, r, host) ==
  LET field(i) == IF results[i].status = "fulfilled" THEN results[i].value ELSE getFallbackData(keys[i])
  IN [requestId |-> r, host |-> host, isDemo |-> FALSE,
      aiResponse |-> field(1), benefits |-> field(2), products |-> field(3),
      hasPartialFailure |-> \E i \in 1..3 : results[i].status # "fulfilled"]

\* handleError without its connection branch
handleErrorNoConnection(error) ==
  IF error.timeoutWord
    THEN [success |-> FALSE, error |-> "timeout", fallbackAvailable |-> TRUE]
  ELSE [success |-> FALSE, error |-> "generic", fallbackAvailable |-> FALSE]

\* SageDataService.handleError: the result for a caught error
handleError(error) ==
  IF error.name = "ConnectionError" \/ error.connectionWord
    THEN [success |-> FALSE, error |-> "connection", fallbackAvailable |-> TRUE]
  ELSE IF error.timeoutWord
    THEN [success |-> FALSE, error |-> "timeout", fallbackAvailable |-> TRUE]
  ELSE [success |-> FALSE, error |-> "generic", fallbackAvailable |-> FALSE]

ConnectionError == [name |-> "ConnectionError", connectionWord |-> TRUE, timeoutWord |-> FALSE]

\* the rejection of a safeAPICall timer: new Error(`${context} request timeout`)
TimeoutReason == [name |-> "Error", connectionWord |-> FALSE, timeoutWord |-> TRUE]

\* a TypeError thrown by normalizeInventory on a catalog entry that is null
TypeErrorReason == [name |-> "TypeError", connectionWord |-> FALSE, timeoutWord |-> FALSE]

NoReason == [name |-> "", connectionWord |-> FALSE, timeoutWord |-> FALSE]

NoProbe == [step |-> -1, host |-> "", timer |-> -1, failed |-> 0]

NoSub == [k \in Keys |-> [status |-> "none", value |-> "", reason |-> NoReason]]

NoErr == [kind |-> "none", name |-> "", timeoutWord |-> FALSE, fetchWord |-> FALSE]

\* getCachedResponse not called yet
NoRead == [by |-> "none", seen |-> <<>>, at |-> 0, host |-> "", live |-> "", data |-> <<>>]

\* buildProductSearchSpec not called yet
NoBuild ==
  [query |-> {}, experienceLevel |-> "casual", connected |-> FALSE,
   raw |-> [kind |-> "error", parsed |-> [strainPreference |-> "absent", priceBand |-> "absent", hasLegal |-> FALSE]],
   pc |-> "idle", threw |-> FALSE,
   spec |-> [query |-> {}, experienceLevel |-> "casual",
             legal |-> [hempDerivedOnly |-> TRUE, delta9MaxPercent |-> "0.3", categoriesAllowed |-> TRUE],
             strainPreference |-> "hybrid", priceBand |-> "mid", targetTHCaPercent |-> <<18, 28>>],
   passed |-> [isNull |-> TRUE,
               spec |-> [query |-> {}, experienceLevel |-> "casual",
                         legal |-> [hempDerivedOnly |-> TRUE, delta9MaxPercent |-> "0.3", categoriesAllowed |-> TRUE],
                         strainPreference |-> "hybrid", priceBand |-> "mid", targetTHCaPercent |-> <<18, 28>>]]]

\* getProductRecommendations not called yet
NoSearch ==
  [source |-> "none", items |-> <<>>, spec |-> NoBuild.spec, pc |-> "idle", threw |-> FALSE,
   normalized |-> <<>>, ranked |-> <<>>, products |-> <<>>]

\* the results page and the product search, which the request pipeline leaves alone
pageVars == <<now, got, search, built>>

NoCall == [pc |-> "none", attempt |-> 0, timeoutS |-> 0, backoffS |-> 0, timer |-> -1,
           statusOk |-> FALSE, err |-> NoErr, host |-> ""]

\* the state after the page has loaded: Config constructed, a SageDataService constructed
start ==
  /\ configHost = DefaultHost
  /\ connectionState = [isConnected |-> FALSE, lastChecked |-> -1, currentHost |-> ""]
  /\ abortController = 0
  /\ aborted = [r \in Reqs |-> FALSE]
  /\ cache = <<>>
  /\ writes = <<>>
  /\ issued = 0
  /\ pc = [r \in Reqs |-> "idle"]
  /\ demo = [r \in Reqs |-> FALSE]
  /\ probe = [r \in Reqs |-> NoProbe]
  /\ sub = [r \in Reqs |-> NoSub]
  /\ order = [r \in Reqs |-> <<>>]
  /\ armed = <<>>
  /\ timer30 = [r \in Reqs |-> -1]
  /\ call = [r \in Reqs |-> NoCall]
  /\ prod = [r \in Reqs |-> "none"]
  /\ result = [r \in Reqs |-> <<>>]
  /\ now = 0
  /\ got = NoRead

\* how a stable Ollama backend answers every generate call it gets
Backends == {"ok", "status", "statusTimeoutText", "malformed", "network", "networkOther", "hang"}

\* how a stable inventory source answers
Inventories == {"ranked", "mock", "throw", "hang"}

\* one submission, and a network that may answer every request differently
Init ==
  /\ start
  /\ search = NoSearch
  /\ built = NoBuild
  /\ env = [calls |-> FreeCalls, stable |-> FALSE, live |-> {}, refuse |-> TRUE,
            backend |-> "ok", inventory |-> "ranked"]

\* overlapping submissions, and a network that answers every request of a kind the same
\* way, at once or never: the hosts in live answer probes, the others refuse the
\* connection (refuse) or leave the probe hanging
InitOverlap ==
  /\ start
  /\ search = NoSearch
  /\ built = NoBuild
  /\ env \in [calls : {MaxReq}, stable : {TRUE}, live : {{}, {DefaultHost}, {candidates[3]}},
              refuse : BOOLEAN, backend : Backends, inventory : Inventories]

\* what the network may answer
probeMay(host, ok) == ~env.stable \/ ((ok <=> host \in env.live) /\ (ok \/ env.refuse))

backendMay(o) == ~env.stable \/ o = env.backend

inventoryMay(o) == ~env.stable \/ o = env.inventory

\* ------------------------------------------------------------ the actions
\* getDemoResponse: the data of the demo result
getDemoResponse(r, host) ==
  [requestId |-> r, host |-> host, isDemo |-> TRUE, aiResponse |-> "", benefits |-> "demoBenefits",
   products |-> "demoProducts", hasPartialFailure |-> FALSE]

\* the first attempt of callOllama, started synchronously by generateResponse
firstAttempt(host) ==
  [NoCall EXCEPT !.pc = "fetch", !.attempt = 1, !.timeoutS = attemptTimeouts[1],
                 !.timer = attemptTimeouts[1], !.host = host]

\* a safeAPICall that arms no timer
noSafeCallTimer == NoCall.timer

\* the timer a safeAPICall arms, in seconds
safeCallTimer == SafeCallTimeoutS

\* executeParallelRequests up to its await: the three safeAPICall promises are
\* created, each arming its 30s timer and then starting its call
fanOut(r, host) ==
  /\ pc' = [pc EXCEPT ![r] = "running"]
  /\ timer30' = [timer30 EXCEPT ![r] = safeCallTimer]
  /\ armed' = Append(armed, r)
  /\ call' = [call EXCEPT ![r] = IF hasOllamaConnection(host) THEN firstAttempt(host) ELSE NoCall]
  /\ sub' = [sub EXCEPT ![r] =
       [k \in Keys |->
          CASE k = "benefits" -> [status |-> "fulfilled", value |-> getBenefitsForExperience, reason |-> NoReason]
            [] k = "aiResponse" /\ ~hasOllamaConnection(host) ->
                 [status |-> "fulfilled", value |-> getFallbackResponse, reason |-> NoReason]
            [] OTHER -> [status |-> "pending", value |-> "", reason |-> NoReason]]]
  /\ order' = [order EXCEPT ![r] =
       IF hasOllamaConnection(host) THEN <<"benefits">> ELSE <<"aiResponse", "benefits">>]
  /\ prod' = [prod EXCEPT ![r] = IF hasOllamaConnection(host) THEN "spec" ELSE "inventory"]
  /\ UNCHANGED result

\* whether processUserInput leaves its try block after ensureConnection
leavesTryNever(cs, threw) == FALSE

leavesTry(cs, threw) == threw \/ ~cs.isConnected

\* processUserInput from the return of ensureConnection to its next await;
\* threw: ensureConnection rejected
afterEnsure(r, cs, ch, d, threw) ==
  /\ connectionState' = cs
  /\ configHost' = ch
  /\ UNCHANGED <<cache, writes>>
  /\ IF leavesTry(cs, threw)
       THEN /\ pc' = [pc EXCEPT ![r] = "done"]
            /\ result' = [result EXCEPT ![r] = <<handleError(ConnectionError)>>]
            /\ UNCHANGED <<sub, order, armed, timer30, call, prod>>
     ELSE IF d
       THEN /\ pc' = [pc EXCEPT ![r] = "done"]
            /\ result' = [result EXCEPT ![r] = <<[success |-> TRUE, data |-> getDemoResponse(r, cs.currentHost)]>>]
            /\ UNCHANGED <<sub, order, armed, timer30, call, prod>>
     ELSE fanOut(r, ch)

\* ensureConnection without the age of the last check
needsValidationNoAge(cs) == ~cs.isConnected \/ cs.lastChecked = -1

\* ensureConnection: whether validateConnection is called
needsValidation(cs) == ~cs.isConnected \/ cs.lastChecked = -1 \/ cs.lastChecked > FreshS

\* Config.testConnection up to its await: the probe of the host configured now
startProbe(p, step, host) == [step |-> step, host |-> host, timer |-> ProbeTimeoutS, failed |-> p.failed]

\* a call of processUserInput: cancelPendingRequests, a new AbortController,
\* ensureConnection up to the first probe or, on the fast path, on to the fan-out
processUserInput(r, d) ==
  /\ r = issued + 1
  /\ r <= env.calls
  /\ pc[r] = "idle"
  /\ issued' = r
  /\ UNCHANGED <<env, pageVars>>
  /\ aborted' = IF abortController # 0 THEN [aborted EXCEPT ![abortController] = TRUE] ELSE aborted
  /\ abortController' = r
  /\ demo' = [demo EXCEPT ![r] = d]
  /\ IF needsValidation(connectionState)
       THEN /\ pc' = [pc EXCEPT ![r] = "connecting"]
            /\ probe' = [probe EXCEPT ![r] = startProbe(NoProbe, 0, configHost)]
            /\ UNCHANGED <<configHost, connectionState, cache, writes, sub, order, armed, timer30, call, prod, result>>
       ELSE /\ afterEnsure(r, connectionState, configHost, d, FALSE)
            /\ UNCHANGED probe

\* testConnection returns; validateConnection and autoDiscoverHost continue
probeResult(r, ok) ==
  LET p == probe[r] IN
  /\ UNCHANGED <<env, abortController, aborted, issued, demo, pageVars>>
  /\ IF ok
       THEN /\ probe' = [probe EXCEPT ![r] = [p EXCEPT !.timer = -1]]
            /\ afterEnsure(r, [isConnected |-> TRUE, lastChecked |-> 0, currentHost |-> p.host],
                           configHost, demo[r], FALSE)
     ELSE IF p.step < Len(candidates)
       THEN /\ configHost' = candidates[p.step + 1]
            /\ probe' = [probe EXCEPT ![r] = startProbe([p EXCEPT !.failed = @ + 1], p.step + 1, candidates[p.step + 1])]
            /\ UNCHANGED <<connectionState, cache, writes, pc, sub, order, armed, timer30, call, prod, result>>
     ELSE /\ probe' = [probe EXCEPT ![r] = [p EXCEPT !.timer = -1, !.failed = @ + 1]]
          /\ afterEnsure(r, [connectionState EXCEPT !.isConnected = FALSE], ResetHost, demo[r], TRUE)

\* the probe's fetch settles before its 3s timer: response.ok, or a bad status / a network error
ProbeResponse(r, ok) ==
  /\ pc[r] = "connecting"
  /\ probeMay(probe[r].host, ok)
  /\ probeResult(r, ok)

\* the 3s timer of testConnection aborts the probe
ProbeTimeout(r) ==
  /\ pc[r] = "connecting"
  /\ probe[r].timer = 0
  /\ probeResult(r, FALSE)

\* a safeAPICall promise settles (Promise.race takes the first outcome only); when it
\* is the last one, Promise.allSettled resolves and executeParallelRequests and
\* processUserInput run on: merge, storeResponse, return
settle(r, k, st, val, reason) ==
  IF sub[r][k].status # "pending"
    THEN UNCHANGED <<sub, order, result, cache, writes, pc, timer30>>
  ELSE
    LET s2 == [sub[r] EXCEPT ![k] = [status |-> st, value |-> val, reason |-> reason]]
        o2 == Append(order[r], k)
        joined == allSettled(s2)
        data == mergeResults(allSettledResults(s2, o2), r, connectionState.currentHost)
        thrown == s2[CHOOSE j \in Keys : s2[j].status = "rejected"].reason
    IN /\ sub' = [sub EXCEPT ![r] = s2]
       /\ order' = [order EXCEPT ![r] = o2]
       /\ timer30' = [timer30 EXCEPT ![r] = IF \E j \in Keys : s2[j].status = "pending" THEN @ ELSE -1]
       /\ IF pc[r] = "running" /\ joined = "resolved"
            THEN /\ cache' = <<data>>
                 /\ writes' = Append(writes, r)
                 /\ result' = [result EXCEPT ![r] = <<[success |-> TRUE, data |-> data]>>]
                 /\ pc' = [pc EXCEPT ![r] = "done"]
          ELSE IF pc[r] = "running" /\ joined = "rejected"
            THEN /\ result' = [result EXCEPT ![r] = <<handleError(thrown)>>]
                 /\ pc' = [pc EXCEPT ![r] = "done"]
                 /\ UNCHANGED <<cache, writes>>
          ELSE UNCHANGED <<result, cache, writes, pc>>

\* the 30s timer of a safeAPICall fires; timers of one duration fire in the order
\* they were armed
SafeCallTimeout(r, k) ==
  /\ timer30[r] = 0
  /\ \A i, j \in 1..Len(armed) : (armed[j] = r /\ i < j) => timer30[armed[i]] # 0
  /\ sub[r][k].status = "pending"
  /\ \A i, j \in 1..3 : (keys[j] = k /\ i < j) => sub[r][keys[i]].status # "pending"
  /\ settle(r, k, "rejected", "", TimeoutReason)
  /\ UNCHANGED <<env, configHost, connectionState, abortController, aborted, issued, demo, probe, armed, call, prod, pageVars>>

\* the catch block of an attempt of callOllama: back off and retry, or throw; a throw
\* is caught by generateResponse, which returns the canned fallback text
catchAttempt(r, e) ==
  LET c == call[r] IN
  IF retryable(e, c.attempt)
    THEN /\ call' = [call EXCEPT ![r] = [c EXCEPT !.pc = "backoff", !.err = e, !.backoffS = backoff(c.attempt),
                                                  !.timer = backoff(c.attempt), !.statusOk = FALSE]]
         /\ UNCHANGED <<sub, order, result, cache, writes, pc, timer30>>
  ELSE /\ call' = [call EXCEPT ![r] = [c EXCEPT !.pc = "failed", !.err = e, !.timer = -1, !.statusOk = FALSE]]
       /\ settle(r, "aiResponse", "fulfilled", getFallbackResponse, NoReason)

callFrame == UNCHANGED <<env, configHost, connectionState, abortController, aborted, issued, demo, probe, armed, prod, pageVars>>

\* fetch resolves with the response headers; the attempt's timer is cleared
FetchResponse(r, ok) ==
  /\ call[r].pc = "fetch"
  /\ \E o \in IF ok THEN {"ok", "malformed"} ELSE {"status", "statusTimeoutText"} : backendMay(o)
  /\ call' = [call EXCEPT ![r] = [@ EXCEPT !.pc = "body", !.statusOk = ok, !.timer = -1]]
  /\ UNCHANGED <<sub, order, result, cache, writes, pc, timer30>>
  /\ callFrame

\* fetch rejects with a TypeError; fw: its message contains 'fetch'
FetchNetworkError(r, fw) ==
  /\ call[r].pc = "fetch"
  /\ backendMay(IF fw THEN "network" ELSE "networkOther")
  /\ catchAttempt(r, NetworkError(fw))
  /\ callFrame

\* the attempt's timer fires: controller.abort() rejects the fetch with an AbortError
AttemptTimeout(r) ==
  /\ call[r].pc = "fetch"
  /\ call[r].timer = 0
  /\ catchAttempt(r, AbortError)
  /\ callFrame

\* response.json() of a 2xx response gives data with a response field
BodyOk(r) ==
  /\ call[r].pc = "body"
  /\ call[r].statusOk
  /\ backendMay("ok")
  /\ call' = [call EXCEPT ![r] = [@ EXCEPT !.pc = "ok"]]
  /\ settle(r, "aiResponse", "fulfilled", "generatedText", NoReason)
  /\ callFrame

\* the body gives an error: a status error whose message carries the body text
\* (timeoutWord: that text contains 'timeout'), or a payload without the response field
BodyError(r, e) ==
  /\ call[r].pc = "body"
  /\ e \in IF call[r].statusOk THEN {MissingFieldError}
           ELSE {StatusError(FALSE), StatusError(TRUE)}
  /\ backendMay(IF e.kind = "malformed" THEN "malformed"
                ELSE IF e.timeoutWord THEN "statusTimeoutText" ELSE "status")
  /\ catchAttempt(r, e)
  /\ callFrame

\* the backoff wait is over: the next attempt starts
BackoffDone(r) ==
  /\ call[r].pc = "backoff"
  /\ call[r].timer = 0
  /\ call' = [call EXCEPT ![r] = [@ EXCEPT !.pc = "fetch", !.attempt = @ + 1,
                                           !.timeoutS = attemptTimeouts[call[r].attempt + 1],
                                           !.timer = attemptTimeouts[call[r].attempt + 1]]]
  /\ UNCHANGED <<sub, order, result, cache, writes, pc, timer30>>
  /\ callFrame

prodFrame == UNCHANGED <<env, configHost, connectionState, abortController, aborted, issued, demo, probe, armed, call, pageVars>>

\* buildProductSearchSpec settles (a rejection becomes a null spec); the inventory fetch starts
SpecSettled(r) ==
  /\ prod[r] = "spec"
  /\ prod' = [prod EXCEPT ![r] = "inventory"]
  /\ UNCHANGED <<sub, order, result, cache, writes, pc, timer30>>
  /\ prodFrame

\* the inventory fetch settles and getProductRecommendations returns the ranked
\* products, the mock products, or throws on a null catalog entry
InventorySettled(r, out) ==
  /\ prod[r] = "inventory"
  /\ out # "hang"
  /\ inventoryMay(out)
  /\ prod' = [prod EXCEPT ![r] = "done"]
  /\ CASE out = "ranked" -> settle(r, "products", "fulfilled", "rankedProducts", NoReason)
       [] out = "mock" -> settle(r, "products", "fulfilled", "mockProducts", NoReason)
       [] out = "throw" -> settle(r, "products", "rejected", "", TypeErrorReason)
  /\ prodFrame

\* the countdowns that are running
countdowns ==
  {probe[r].timer : r \in Reqs} \cup {timer30[r] : r \in Reqs}
    \cup {call[r].timer : r \in Reqs}

\* a stable network has an answer under way, which comes before time passes
answerDue ==
  \E r \in Reqs :
    \/ pc[r] = "connecting" /\ (probe[r].host \in env.live \/ env.refuse)
    \/ call[r].pc = "fetch" /\ env.backend # "hang"
    \/ call[r].pc = "body"
    \/ prod[r] = "spec" /\ env.backend # "hang"
    \/ prod[r] = "inventory" /\ env.inventory # "hang"

\* time passes: by one second, or, when the network is stable and nothing can
\* happen before it, up to the next deadline; no timer that is due is passed over
Tick ==
  LET ageLeft == IF connectionState.lastChecked \in 0..FreshS
                   THEN {FreshS + 1 - connectionState.lastChecked} ELSE {}
      pending == {t \in countdowns : t > 0} \cup ageLeft
      d == IF env.stable THEN Min(pending) ELSE 1
      dec(t) == IF t > 0 THEN t - d ELSE t
  IN /\ 0 \notin countdowns
     /\ pending # {}
     /\ env.stable => ~answerDue
     /\ probe' = [r \in Reqs |-> [probe[r] EXCEPT !.timer = dec(@)]]
     /\ timer30' = [r \in Reqs |-> dec(timer30[r])]
     /\ call' = [r \in Reqs |-> [call[r] EXCEPT !.timer = dec(@)]]
     /\ connectionState' = [connectionState EXCEPT !.lastChecked =
                              IF @ \in 0..FreshS THEN @ + d ELSE @]
     /\ UNCHANGED <<env, configHost, abortController, aborted, cache, writes, issued, pc, demo,
                    sub, order, armed, prod, result, pageVars>>

Next ==
  \/ \E r \in Reqs, d \in BOOLEAN : processUserInput(r, d)
  \/ \E r \in Reqs, ok \in BOOLEAN : ProbeResponse(r, ok)
  \/ \E r \in Reqs : ProbeTimeout(r)
  \/ \E r \in Reqs, k \in Keys : SafeCallTimeout(r, k)
  \/ \E r \in Reqs, ok \in BOOLEAN : FetchResponse(r, ok)
  \/ \E r \in Reqs, fw \in BOOLEAN : FetchNetworkError(r, fw)
  \/ \E r \in Reqs : AttemptTimeout(r)
  \/ \E r \in Reqs : BodyOk(r)
  \/ \E r \in Reqs, e \in {MissingFieldError, StatusError(FALSE), StatusError(TRUE)} : BodyError(r, e)
  \/ \E r \in Reqs : BackoffDone(r)
  \/ \E r \in Reqs : SpecSettled(r)
  \/ \E r \in Reqs, out \in {"ranked", "mock", "throw"} : InventorySettled(r, out)
  \/ Tick

Spec == Init /\ [][Next]_vars

OverlapSpec == InitOverlap /\ [][Next]_vars

\* one submission, and a network that answers at once or never
InitSingle ==
  /\ start
  /\ search = NoSearch
  /\ built = NoBuild
  /\ env \in [calls : {FreeCalls}, stable : {TRUE}, live : {{}, {DefaultHost}, {candidates[3]}},
              refuse : BOOLEAN, backend : Backends, inventory : Inventories]

\* a timer that is due fires, and time passes when none is due
Clock ==
  \/ Tick
  \/ \E r \in Reqs : ProbeTimeout(r) \/ AttemptTimeout(r) \/ BackoffDone(r)
  \/ \E r \in Reqs, k \in Keys : SafeCallTimeout(r, k)

\* an answer that a stable network has under way arrives
Answer ==
  /\ answerDue
  /\ \E r \in Reqs :
       \/ \E ok \in BOOLEAN : ProbeResponse(r, ok) \/ FetchResponse(r, ok) \/ FetchNetworkError(r, ok)
       \/ BodyOk(r)
       \/ \E e \in {MissingFieldError, StatusError(FALSE), StatusError(TRUE)} : BodyError(r, e)
       \/ SpecSettled(r)
       \/ \E out \in Inventories : InventorySettled(r, out)

\* the timers are fair; the network owes an answer only where it answers at once
FairSpec == InitSingle /\ [][Next]_vars /\ WF_vars(Clock) /\ WF_vars(Answer)

(***************************************************************************)
(* The response cache: the sessionStorage item 'sageResponse', its writers *)
(* and SageDataService.getCachedResponse, which the results page calls on  *)
(* a service of its own.                                                   *)
(***************************************************************************)

\* 30 * 60 * 1000 ms
MaxAgeMs == 1800000

\* the length under which a text can be taken for a canned one
FallbackLength == 500

\* the instants at which the cache is written and read, in ms
Instants == {0, 1000, 1799000, 1800000, 1801000, 3600000}

\* the opening sentences of the three canned answers of getFallbackResponse
fallbackPatterns == {"personalized cannabis guidance", "full recommendation engine",
                     "comprehensive analysis system"}

\* an answer text, by what isFallbackData looks at: the fingerprints it includes, its
\* length, whether it includes '[INTRODUCTION]'
text(patterns, length, marker) == [patterns |-> patterns, length |-> length, marker |-> marker]

\* the texts a stored response can carry: a generated answer with its section marker, a
\* short one without, the three canned answers (350, 348 and 354 characters), the
\* backup-systems sentence of getFallbackData, answers that quote a canned sentence
\* (long, or with the marker), and no text at all
Texts ==
  { text({}, 2000, TRUE), text({}, 120, FALSE), text({}, 88, FALSE), text({}, 0, FALSE),
    text({"personalized cannabis guidance"}, 350, FALSE),
    text({"full recommendation engine"}, 348, FALSE),
    text({"comprehensive analysis system"}, 354, FALSE),
    text({"personalized cannabis guidance"}, 800, FALSE),
    text({"full recommendation engine"}, 420, TRUE) }

\* the three texts of SageAPI.getFallbackResponse, which generateResponse returns when
\* callOllama throws: 350, 348 and 354 characters, each opening with its fingerprint
cannedTexts ==
  { text({"personalized cannabis guidance"}, 350, FALSE),
    text({"full recommendation engine"}, 348, FALSE),
    text({"comprehensive analysis system"}, 354, FALSE) }

\* the hosts a service can be connected to when it writes or reads the cache
LiveHosts == {"http://localhost:11434", "http://origin/ollama"}

\* the object a writer stores; host "" is no host field (or host: null)
responseData(host, aiResponse, timestamp) ==
  [json |-> TRUE, timestamp |-> timestamp, host |-> host, aiResponse |-> aiResponse]

\* an item that JSON.parse throws on
Unparseable == [json |-> FALSE, timestamp |-> 0, host |-> "", aiResponse |-> text({}, 0, FALSE)]

\* an isFallbackData that flags nothing
isFallbackDataNever(data) == FALSE

\* isFallbackData without its length condition
isFallbackDataAnyLength(data) ==
  IF data.aiResponse.length = 0 THEN FALSE
  ELSE \E pattern \in fallbackPatterns :
         pattern \in data.aiResponse.patterns /\ ~data.aiResponse.marker

\* SageDataService.isFallbackData
isFallbackData(data) ==
  IF data.aiResponse.length = 0 THEN FALSE
  ELSE \E pattern \in fallbackPatterns :
         /\ pattern \in data.aiResponse.patterns
         /\ data.aiResponse.length < FallbackLength
         /\ ~data.aiResponse.marker

\* an age check that never fails
tooOldNever(age) == FALSE

\* getCachedResponse's freshness check
tooOld(age) == age > MaxAgeMs

\* a clearCache that leaves the item in place
clearCacheKeeps(stored) == stored

\* SageDataService.clearCache: what is left of the item
clearCache(stored) == <<>>

\* SageDataService.getCachedResponse on a service whose connectionState.currentHost is
\* currentHost ("" for null), at time t: what it returns and what it leaves stored
getCachedResponse(stored, currentHost, t) ==
  IF stored = <<>> THEN [data |-> <<>>, stored |-> stored]
  ELSE LET data == stored[1] IN
    IF ~data.json THEN [data |-> <<>>, stored |-> clearCache(stored)]
    ELSE IF tooOld(t - data.timestamp) THEN [data |-> <<>>, stored |-> clearCache(stored)]
    ELSE IF data.host # "" /\ data.host # currentHost THEN [data |-> <<>>, stored |-> clearCache(stored)]
    ELSE IF isFallbackData(data) THEN [data |-> <<>>, stored |-> clearCache(stored)]
    ELSE [data |-> <<data>>, stored |-> stored]

\* what the cache layer leaves alone: the request pipeline, at rest
cacheFrame == UNCHANGED <<env, configHost, abortController, aborted, writes, issued, pc, demo,
                          probe, sub, order, armed, timer30, call, prod, result, search, built>>

\* the index page's service validates a connection to host h
Connect(h) ==
  /\ connectionState' = [isConnected |-> TRUE, lastChecked |-> 0, currentHost |-> h]
  /\ got' = got
  /\ UNCHANGED <<cache, now>>
  /\ cacheFrame

\* processUserInput's last step on a connected service: storeResponse of the merged data,
\* which carries the service's current host
StoreResponse(aiResponse) ==
  /\ connectionState.isConnected
  /\ cache' = <<responseData(connectionState.currentHost, aiResponse, now)>>
  /\ got' = NoRead
  /\ UNCHANGED <<connectionState, now>>
  /\ cacheFrame

\* the form handler of config.js stores its own object, which has no host
LegacyStore(aiResponse) ==
  /\ cache' = <<responseData("", aiResponse, now)>>
  /\ got' = NoRead
  /\ UNCHANGED <<connectionState, now>>
  /\ cacheFrame

\* another script of the page leaves text under the key that is not JSON
ForeignStore ==
  /\ cache' = <<Unparseable>>
  /\ got' = NoRead
  /\ UNCHANGED <<connectionState, now>>
  /\ cacheFrame

\* time passes
Advance ==
  /\ \E t \in Instants : t > now /\ now' = t
  /\ UNCHANGED <<cache, connectionState, got>>
  /\ cacheFrame

\* getCachedResponse is called: by the results page, on the service its controller has
\* just constructed (currentHost null), or on the index page's own service
Read(by) ==
  LET currentHost == IF by = "results" THEN "" ELSE connectionState.currentHost
      out == getCachedResponse(cache, currentHost, now)
  IN /\ cache' = out.stored
     /\ got' = [by |-> by, seen |-> cache, at |-> now, host |-> currentHost,
                live |-> connectionState.currentHost, data |-> out.data]
     /\ UNCHANGED <<connectionState, now>>
     /\ cacheFrame

InitCache ==
  /\ start
  /\ search = NoSearch
  /\ built = NoBuild
  /\ env = [calls |-> 0, stable |-> TRUE, live |-> {}, refuse |-> TRUE,
            backend |-> "ok", inventory |-> "ranked"]

NextCache ==
  \/ \E h \in LiveHosts : Connect(h)
  \/ \E aiResponse \in Texts : StoreResponse(aiResponse)
  \/ \E aiResponse \in Texts : LegacyStore(aiResponse)
  \/ ForeignStore
  \/ Advance
  \/ \E by \in {"results", "index"} : Read(by)

CacheSpec == InitCache /\ [][NextCache]_vars

(***************************************************************************)
(* The search spec: SageAPI.buildProductSearchSpec as a function of the    *)
(* query, the experience level and what the model answers.                 *)
(***************************************************************************)

\* the words the heuristics look for in the lower-cased query
indicaWords == {"sleep", "anxiety", "relax"}

sativaWords == {"focus", "day", "energy"}

valueWords == {"budget", "cheap"}

potentWords == {"strong", "potent"}

Keywords == indicaWords \cup sativaWords \cup valueWords \cup potentWords

\* a query, by the keywords it includes
Queries == SUBSET Keywords

\* the experience levels of the selector, and a value that is none of them
Levels == {"new", "casual", "experienced", "guru"}

\* baseSpec.legal; categoriesAllowed: whether the list of categories is there
legalBase == [hempDerivedOnly |-> TRUE, delta9MaxPercent |-> "0.3", categoriesAllowed |-> TRUE]

\* the legal object buildProductSearchSpec sets on a refined spec
legalRefined == [hempDerivedOnly |-> TRUE, delta9MaxPercent |-> "0.3", categoriesAllowed |-> FALSE]

\* a legal object the model's JSON may carry
legalOfModel == [hempDerivedOnly |-> FALSE, delta9MaxPercent |-> "100", categoriesAllowed |-> FALSE]

\* buildProductSearchSpec up to its try block: baseSpec after the heuristics, the later
\* ones overwriting the earlier
heuristicSpec(q, experienceLevel) ==
  [query |-> q,
   experienceLevel |-> experienceLevel,
   legal |-> legalBase,
   strainPreference |-> IF q \cap sativaWords # {} THEN "sativa"
                        ELSE IF q \cap indicaWords # {} THEN "indica" ELSE "hybrid",
   priceBand |-> IF q \cap valueWords # {} THEN "value" ELSE "mid",
   targetTHCaPercent |-> IF q \cap potentWords # {} THEN <<22, 30>> ELSE <<18, 28>>]

\* the object JSON.parse gives, by the fields it has ("absent": the JSON has no such field)
NoParsed == [strainPreference |-> "absent", priceBand |-> "absent", hasLegal |-> FALSE]

ParsedObjects ==
  [strainPreference : {"absent", "sativa", "notAString"}, priceBand : {"absent", "premium"},
   hasLegal : BOOLEAN]

\* what callOllama gives buildProductSearchSpec: a throw, text without '{' ... '}', text
\* whose braces hold no JSON, or text whose braces hold an object
Raws ==
  {[kind |-> k, parsed |-> NoParsed] : k \in {"error", "noJson", "unparseable"}}
    \cup {[kind |-> "json", parsed |-> o] : o \in ParsedObjects}

\* { ...baseSpec, ...parsed }
spread(baseSpec, parsed) ==
  [baseSpec EXCEPT
     !.strainPreference = IF parsed.strainPreference = "absent" THEN @ ELSE parsed.strainPreference,
     !.priceBand = IF parsed.priceBand = "absent" THEN @ ELSE parsed.priceBand,
     !.legal = IF parsed.hasLegal THEN legalOfModel ELSE @]

\* a refinement that lets the model's legal object through
withLegalOfModel(spec) == spec

\* legal: { hempDerivedOnly: true, delta9MaxPercent: 0.3 }, written after the spread
withLegal(spec) == [spec EXCEPT !.legal = legalRefined]

\* a try body that takes what it can from text it cannot parse
refineLenient(baseSpec, raw) ==
  IF raw.kind = "error" THEN [threw |-> TRUE, found |-> FALSE, spec |-> baseSpec]
  ELSE IF raw.kind = "noJson" THEN [threw |-> FALSE, found |-> FALSE, spec |-> baseSpec]
  ELSE IF raw.kind = "unparseable"
    THEN [threw |-> FALSE, found |-> TRUE, spec |-> withLegal([baseSpec EXCEPT !.priceBand = "premium"])]
  ELSE [threw |-> FALSE, found |-> TRUE, spec |-> withLegal(spread(baseSpec, raw.parsed))]

\* the try body of buildProductSearchSpec after the connection check: callOllama or
\* JSON.parse throws, or no braces are found, or the refined spec is returned
refine(baseSpec, raw) ==
  IF raw.kind = "error" THEN [threw |-> TRUE, found |-> FALSE, spec |-> baseSpec]
  ELSE IF raw.kind = "noJson" THEN [threw |-> FALSE, found |-> FALSE, spec |-> baseSpec]
  ELSE IF raw.kind = "unparseable" THEN [threw |-> TRUE, found |-> FALSE, spec |-> baseSpec]
  ELSE [threw |-> FALSE, found |-> TRUE, spec |-> withLegal(spread(baseSpec, raw.parsed))]

\* SageAPI.buildProductSearchSpec for a query that is a string: the catch swallows what
\* the try body throws
buildProductSearchSpec(q, experienceLevel, connected, raw) ==
  LET baseSpec == heuristicSpec(q, experienceLevel)
      tried == refine(baseSpec, raw)
  IN IF ~connected THEN [threw |-> FALSE, spec |-> baseSpec]
     ELSE IF ~tried.threw /\ tried.found THEN [threw |-> FALSE, spec |-> tried.spec]
     ELSE [threw |-> FALSE, spec |-> baseSpec]

\* getProductRecommendations: buildProductSearchSpec(...).catch(() => null)
orNull(out) == [isNull |-> out.threw, spec |-> out.spec]

\* buildProductSearchSpec settles and getProductRecommendations takes its spec
Build ==
  /\ built.pc = "called"
  /\ LET out == buildProductSearchSpec(built.query, built.experienceLevel, built.connected, built.raw)
     IN built' = [built EXCEPT !.pc = "returned", !.threw = out.threw, !.spec = out.spec,
                               !.passed = orNull(out)]
  /\ UNCHANGED <<env, configHost, connectionState, abortController, aborted, cache, writes, issued,
                 pc, demo, probe, sub, order, armed, timer30, call, prod, result, now, got, search>>

\* a call of buildProductSearchSpec, with what the model is about to answer
InitBuild ==
  /\ start
  /\ env = [calls |-> 0, stable |-> TRUE, live |-> {}, refuse |-> TRUE,
            backend |-> "ok", inventory |-> "ranked"]
  /\ search = NoSearch
  /\ \E q \in Queries, experienceLevel \in Levels, connected \in BOOLEAN :
       \E raw \in (IF connected THEN Raws ELSE {[kind |-> "error", parsed |-> NoParsed]}) :
         built = [NoBuild EXCEPT !.query = q, !.experienceLevel = experienceLevel,
                                 !.connected = connected, !.raw = raw, !.pc = "called"]

BuilderSpec == InitBuild /\ [][Build]_vars


(***************************************************************************)
(* The product search: SageAPI.getProductRecommendations as a function of  *)
(* what the inventory source answers and of the search spec.               *)
(***************************************************************************)

\* the longest catalog the inventory source answers with
MaxItems == 5

\* how many products getProductRecommendations keeps: slice(0, 4)
TopN == 4

\* the wording passesLegalFilter looks for: 'hemp', 'farm bill', '≤0.3' (ceiling)
complianceWords == {"hemp", "farm bill", "ceiling"}

\* an entry of the catalog that is an object. strain: "" when it has neither strain nor
\* category nor type; named: it has a name and a description of its own, whose words (of
\* those the code looks for) are words; thca: it has a THCa percentage; price: "" when none
entry(strain, named, words, thca, price) ==
  [isNull |-> FALSE, strain |-> strain, named |-> named, words |-> words, thca |-> thca,
   price |-> price]

\* a null in the array
nullEntry == [isNull |-> TRUE, strain |-> "", named |-> FALSE, words |-> {}, thca |-> FALSE, price |-> ""]

\* the entries a catalog is made of: labelled hemp THCa flower of either strain, entries
\* whose own name and description say nothing of hemp, THCa or a Delta-9 ceiling, an
\* object with no field at all, and null
RawItems ==
  { entry("Indica", TRUE, {"hemp", "thca"}, TRUE, "$15"),
    entry("Sativa", TRUE, {"hemp", "thca"}, TRUE, "$15"),
    entry("Sativa", TRUE, {}, FALSE, "$60"),
    entry("Indica", TRUE, {}, FALSE, "$15"),
    entry("", FALSE, {}, FALSE, ""),
    nullEntry }

\* the catalogs: arrays of up to MaxItems entries
Catalogs == UNION {[1..n -> RawItems] : n \in 0..MaxItems}

\* what the inventory source answers: fetch rejects, a status that is not ok, JSON that
\* is no array, an array
Sources == {"fetchError", "notOk", "notArray", "array"}

\* the search specs buildProductSearchSpec gives: a strainPreference and a priceBand from
\* the heuristics or from the model's JSON, which can make strainPreference a non-string
SearchSpecs ==
  { [heuristicSpec({}, "casual") EXCEPT !.strainPreference = pref, !.priceBand = band] :
      pref \in {"hybrid", "indica", "sativa"}, band \in {"mid", "value", "premium"} }
    \cup { [heuristicSpec({}, "casual") EXCEPT !.strainPreference = "notAString", !.legal = legalRefined] }

\* the two mock products of getProductRecommendations
mock ==
  << [id |-> 0, strain |-> "Hybrid", words |-> {"hemp", "thca", "farm bill"}, cbd |-> {"hemp", "ceiling"},
      thc |-> {"thca"}, price |-> "$29"],
     [id |-> 0, strain |-> "Indica", words |-> {"hemp", "thca"}, cbd |-> {"hemp", "ceiling"},
      thc |-> {"thca"}, price |-> "$32"] >>

\* SageAPI.fetchStaticInventory: the array, or a throw
fetchStaticInventory(source, items) ==
  IF source = "array" THEN [threw |-> FALSE, data |-> items]
  ELSE [threw |-> TRUE, data |-> <<>>]

\* normalizeInventory's map callback: the product made of entry i, an object. The name and
\* the description default to 'THCa Hemp Flower' and 'Farm Bill compliant THCa hemp
\* flower'; cbd is the legal note 'Δ9 ≤0.3% (hemp)' and thc starts with 'THCa', whatever
\* the entry says
product(it, i) ==
  [id |-> i,
   strain |-> IF it.strain = "" THEN "Hybrid" ELSE it.strain,
   words |-> IF it.named THEN it.words ELSE {"hemp", "thca", "farm bill"},
   cbd |-> {"hemp", "ceiling"},
   thc |-> {"thca"},
   price |-> IF it.price = "" THEN "$--" ELSE it.price]

\* SageAPI.passesLegalFilter, for a spec with its legal object: the text is name,
\* description and cbd
passesLegalFilter(p, spec) ==
  LET labelling == p.words \cup p.cbd
  IN IF spec.legal.hempDerivedOnly
       THEN IF labelling \cap complianceWords = {} THEN "thca" \in p.thc ELSE TRUE
     ELSE TRUE

\* SageAPI.normalizeInventory: reading it.strain of a null entry throws a TypeError
normalizeInventory(rawItems, spec) ==
  IF \E i \in 1..Len(rawItems) : rawItems[i].isNull
    THEN [threw |-> TRUE, products |-> <<>>]
  ELSE LET normalized == [i \in 1..Len(rawItems) |-> product(rawItems[i], i)]
       IN [threw |-> FALSE, products |-> SelectSeq(normalized, LAMBDA p : passesLegalFilter(p, spec))]

\* the highest score rankProducts can give: 3 + 2 + 2 + 1
MaxScore == 3 + 2 + 2 + 1

\* rankProducts' score of a product: n is name, strain and description in lower case
score(p, spec) ==
  LET pref == spec.strainPreference
      n == p.words \cup (IF p.strain = "Indica" THEN {"indica"}
                         ELSE IF p.strain = "Sativa" THEN {"sativa"} ELSE {"hybrid"})
  IN (IF pref = "indica" /\ "indica" \in n THEN 3 ELSE 0)
     + (IF pref = "sativa" /\ "sativa" \in n THEN 3 ELSE 0)
     + (IF pref = "hybrid" /\ "hybrid" \in n THEN 2 ELSE 0)
     + (IF "thca" \in n THEN 2 ELSE 0)
     + (IF "hemp" \in n THEN 2 ELSE 0)
     + (IF spec.priceBand = "value" /\ p.price \in {"$15", "$29"} THEN 1 ELSE 0)
     + (IF spec.priceBand = "premium" /\ p.price = "$60" THEN 1 ELSE 0)

\* Array.prototype.sort((a, b) => b.score - a.score), which is stable: the products of
\* score n and less, those of a higher score first and equal ones in their order
RECURSIVE sorted(_, _, _)
sorted(products, spec, n) ==
  IF n < 0 THEN <<>>
  ELSE SelectSeq(products, LAMBDA p : score(p, spec) = n) \o sorted(products, spec, n - 1)

\* a rankProducts that leaves the products as they come
rankProductsUnsorted(products, spec) ==
  IF spec.strainPreference = "notAString" THEN [threw |-> TRUE, products |-> <<>>]
  ELSE [threw |-> FALSE, products |-> products]

\* SageAPI.rankProducts: (spec?.strainPreference || 'hybrid').toLowerCase() throws on a
\* preference that is no string
rankProducts(products, spec) ==
  IF spec.strainPreference = "notAString" THEN [threw |-> TRUE, products |-> <<>>]
  ELSE [threw |-> FALSE, products |-> sorted(products, spec, MaxScore)]

\* slice(0, n)
slice(s, n) == SubSeq(s, 1, Min({n, Len(s)}))

\* SageAPI.getProductRecommendations: the fetch in its try, then normalize, rank and
\* slice outside of it, or the mock products
getProductRecommendations(source, rawItems, spec) ==
  LET fetched == fetchStaticInventory(source, rawItems)
      items == IF fetched.threw THEN <<>> ELSE fetched.data
      normalized == normalizeInventory(items, spec)
      ranked == rankProducts(normalized.products, spec)
  IN IF Len(items) > 0
       THEN IF normalized.threw \/ ranked.threw
              THEN [threw |-> TRUE, products |-> <<>>, normalized |-> normalized.products, ranked |-> <<>>]
            ELSE [threw |-> FALSE, products |-> slice(ranked.products, TopN),
                  normalized |-> normalized.products, ranked |-> ranked.products]
     ELSE [threw |-> FALSE, products |-> mock, normalized |-> <<>>, ranked |-> <<>>]

\* getProductRecommendations runs to its end
Recommend ==
  /\ search.pc = "called"
  /\ LET out == getProductRecommendations(search.source, search.items, search.spec)
     IN search' = [search EXCEPT !.pc = "returned", !.threw = out.threw, !.products = out.products,
                                 !.normalized = out.normalized, !.ranked = out.ranked]
  /\ UNCHANGED <<env, configHost, connectionState, abortController, aborted, cache, writes, issued,
                 pc, demo, probe, sub, order, armed, timer30, call, prod, result, now, got, built>>

\* a call of getProductRecommendations, with what the inventory source is about to answer
InitSearch ==
  /\ start
  /\ env = [calls |-> 0, stable |-> TRUE, live |-> {}, refuse |-> TRUE,
            backend |-> "ok", inventory |-> "ranked"]
  /\ built = NoBuild
  /\ \E source \in Sources, spec \in SearchSpecs :
       \E items \in (IF source = "array" THEN Catalogs ELSE {<<>>}) :
         search = [NoSearch EXCEPT !.source = source, !.items = items, !.spec = spec, !.pc = "called"]

SearchSpec == InitSearch /\ [][Recommend]_vars



\* ------------------------------------------------------------ the properties
\* a call that returned the merged response of its three sub-tasks
merged(r) == result[r] # <<>> /\ result[r][1].success /\ ~result[r][1].data.isDemo

\* the field of a response that belongs to a sub-task
fieldOf(d, k) ==
  CASE k = "aiResponse" -> d.aiResponse
    [] k = "benefits" -> d.benefits
    [] k = "products" -> d.products

\* C1: when two calls overlap, no call writes the cache after a call issued later
\* has written it, so the cache ends up holding the response of the later call
C1_LaterRequestWins ==
  \A i, j \in 1..Len(writes) : i < j => writes[i] < writes[j]

\* C2: once a later call has cancelled an earlier one, no fetch attempt, body read
\* or retry wait of the earlier call is outstanding and none starts
C2_CancelAbortsEarlierCall ==
  \A r \in Reqs : aborted[r] => call[r].pc \notin {"fetch", "body", "backoff"}

\* C3: the response carries hasPartialFailure whenever one of its sub-tasks failed,
\* in particular whenever the generation call of the request ended in an error
C3_PartialFailureFlag ==
  \A r \in Reqs :
    merged(r) =>
      /\ (\E k \in Keys : sub[r][k].status = "rejected") => result[r][1].data.hasPartialFailure
      /\ call[r].pc = "failed" => result[r][1].data.hasPartialFailure

\* C4: every field of the merged response is the value of its own sub-task, or that
\* sub-task's fallback when it failed, whatever the order the sub-tasks settled in
\* and whatever became of the other two
C4_MergeKeepsEachBranch ==
  \A r \in Reqs :
    merged(r) =>
      \A k \in Keys :
        fieldOf(result[r][1].data, k) =
          IF sub[r][k].status = "fulfilled" THEN sub[r][k].value ELSE getFallbackData(k)

C4_Witness ==
  \E r \in Reqs :
    /\ merged(r)
    /\ order[r] = <<"benefits", "products", "aiResponse">>
    /\ sub[r]["aiResponse"].status = "rejected"
    /\ sub[r]["products"].value = "rankedProducts"

\* the probe of the configured host and of every discovery candidate failed
connectFailed(r) == probe[r].failed = Len(candidates) + 1

\* C5 as stated: after a failed ensureConnection the call still launches its
\* sub-tasks and returns a degraded response
C5_ConnectionFailureDegrades ==
  \A r \in Reqs :
    connectFailed(r) /\ pc[r] = "done" => sub[r] # NoSub /\ result[r][1].success

\* C5: after a failed ensureConnection the call ends with the error result
\* 'connection'; no sub-task is launched, no generation is attempted and nothing
\* is written to the cache
C5_ConnectionFailureEndsCall ==
  \A r \in Reqs :
    connectFailed(r) =>
      /\ pc[r] = "done"
      /\ result[r] = <<[success |-> FALSE, error |-> "connection", fallbackAvailable |-> TRUE]>>
      /\ sub[r] = NoSub /\ call[r] = NoCall /\ prod[r] = "none" /\ timer30[r] = -1
      /\ \A i \in 1..Len(writes) : writes[i] # r

C5_Witness ==
  \E r \in Reqs : connectFailed(r) /\ probe[r].step = Len(candidates) /\ pc[r] = "done"

\* C6: a call that returned has a result; the result is an error only when the
\* probes of the configured host and of every candidate failed, and then it is the
\* error 'connection'; every failure after that is absorbed into a success
C6_NeverRejects ==
  \A r \in Reqs :
    /\ pc[r] = "done" <=> result[r] # <<>>
    /\ result[r] # <<>> /\ ~result[r][1].success =>
         result[r][1].error = "connection" /\ connectFailed(r)
    /\ pc[r] = "done" /\ ~connectFailed(r) => result[r][1].success

C6_Witness ==
  \E r \in Reqs :
    /\ merged(r)
    /\ call[r].pc = "failed"
    /\ sub[r]["products"].reason = TypeErrorReason

\* C7: a call that fanned out returns only when none of its three sub-tasks is
\* pending, also when one of them has failed before the others settled
C7_ResponseAfterAllSettled ==
  \A r \in Reqs :
    pc[r] = "done" /\ sub[r] # NoSub => \A k \in Keys : sub[r][k].status \in {"fulfilled", "rejected"}

C7_Witness ==
  \E r \in Reqs :
    /\ merged(r)
    /\ order[r] = <<"benefits", "products", "aiResponse">>
    /\ sub[r]["products"].status = "rejected"
    /\ sub[r]["aiResponse"].status = "fulfilled"

\* C8: a pending sub-task has its 30s timer running, and a call that was made
\* returns, whatever the backend and the inventory source do
C8_SubTasksSettleInTime ==
  /\ [](\A r \in Reqs, k \in Keys :
          sub[r][k].status = "pending" => timer30[r] \in 0..SafeCallTimeoutS /\ pc[r] = "running")
  /\ \A r \in Reqs : (pc[r] \in {"connecting", "running"}) ~> (pc[r] = "done")

C8_Witness ==
  \E r \in Reqs :
    /\ merged(r)
    /\ sub[r]["aiResponse"].reason = TimeoutReason
    /\ sub[r]["products"].reason = TimeoutReason
    /\ call[r].pc = "fetch" /\ prod[r] = "inventory"

\* C9: callOllama makes at most 3 attempts, with the timeouts 60s, 120s and 240s; it
\* waits attempt x 1s after a retryable failure of attempt 1 or 2 and starts the next
\* attempt only when that wait is over; there is no wait after attempt 3, and a
\* call that fails by a timeout fails at attempt 3
C9_AttemptsAndBackoff ==
  /\ [](\A r \in Reqs :
          LET c == call[r] IN
          /\ c.attempt <= maxAttempts
          /\ c.pc = "fetch" => c.timeoutS = attemptTimeouts[c.attempt] /\ c.timer \in 0..c.timeoutS
          /\ c.pc = "backoff" => c.attempt < maxAttempts /\ c.backoffS = c.attempt /\ c.timer \in 0..c.backoffS
          /\ c.pc = "failed" /\ c.err.kind = "abort" => c.attempt = maxAttempts)
  /\ [][\A r \in Reqs :
          /\ call'[r].attempt # call[r].attempt =>
               /\ call'[r].attempt = call[r].attempt + 1
               /\ call[r].attempt > 0 => call[r].pc = "backoff" /\ call[r].timer = 0
          /\ call[r].pc = "fetch" /\ call[r].attempt = maxAttempts
               => call'[r].pc \in {"fetch", "body", "failed"}]_vars

C9_Witness ==
  \E r \in Reqs :
    /\ call[r].pc = "failed"
    /\ call[r].attempt = maxAttempts
    /\ call[r].err = AbortError

\* C10: callOllama waits and retries only after a timeout or a transport error; an
\* attempt that got a non-2xx status, whatever the status and the body, or a
\* payload without the response field, is the last one
C10_OnlyNetworkErrorsRetried ==
  \A r \in Reqs :
    call[r].pc = "backoff" => call[r].err.kind \in {"abort", "network"}

\* C11: when callOllama fails after its 3 attempts by a timeout or a network error,
\* the error it throws names the time all attempts took: 420s after three timeouts,
\* and a number of seconds in every other mix
C11_ExhaustedErrorNamesElapsed ==
  \A r \in Reqs :
    LET c == call[r] IN
    c.pc = "failed" /\ c.attempt = maxAttempts /\ (isAbort(c.err) \/ isNetwork(c.err)) =>
      friendlyError(c.err, c.attempt).afterS >= 0

\* C12: an attempt of callOllama that is in flight, waiting for the response or
\* reading its body, has its timer running
C12_AttemptBoundedByTimer ==
  \A r \in Reqs :
    call[r].pc \in {"fetch", "body"} => call[r].timer \in 0..call[r].timeoutS

\* C13: a call made while the service is connected and its last check is at most
\* 60s old goes on without a probe and leaves the connection state and the
\* configured host as they are; a call made in any other state starts a probe
C13_FastPath ==
  [][\A r \in Reqs :
       pc[r] = "idle" /\ pc'[r] # "idle" =>
         IF connectionState.isConnected /\ connectionState.lastChecked \in 0..FreshS
           THEN /\ probe' = probe
                /\ connectionState' = connectionState
                /\ configHost' = configHost
                /\ pc'[r] \in {"running", "done"}
                /\ pc'[r] = "done" => result'[r][1].success
         ELSE /\ pc'[r] = "connecting"
              /\ probe'[r] = [step |-> 0, host |-> configHost, timer |-> ProbeTimeoutS, failed |-> 0]]_vars

C13_Witness ==
  \E r \in Reqs :
    /\ pc[r] = "running" /\ timer30[r] = SafeCallTimeoutS
    /\ probe[r] = NoProbe
    /\ connectionState.lastChecked = FreshS

\* the order in which the candidates are to be probed
discoveryOrder ==
  <<"http://localhost:11434", "http://localhost:11435", "http://origin/ollama", "http://127.0.0.1:11434">>

\* C14: after the probe of the configured host failed the candidates are probed one
\* at a time in the order direct, proxy, same origin, 127.0.0.1; the first that
\* answers is adopted (connected, currentHost and configured host that candidate,
\* lastChecked set) and no further one is probed; when none answers the state is
\* not connected and the call ends with the connection error
C14_DiscoveryOrder ==
  /\ [](\A r \in Reqs :
          probe[r].step >= 1 =>
            probe[r].host = discoveryOrder[probe[r].step] /\ probe[r].failed >= probe[r].step)
  /\ [][\A r \in Reqs :
          pc[r] = "connecting" /\ pc'[r] # "connecting" /\ probe[r].step >= 1 =>
            IF connectFailed(r)'
              THEN /\ ~connectionState'.isConnected
                   /\ result'[r] = <<handleError(ConnectionError)>>
            ELSE /\ probe'[r].step = probe[r].step
                 /\ connectionState' = [isConnected |-> TRUE, lastChecked |-> 0,
                                        currentHost |-> probe[r].host]
                 /\ configHost' = probe[r].host]_vars

(***************************************************************************)
(* The response cache                                                      *)
(***************************************************************************)

\* the last call of getCachedResponse found an entry that parses
sawEntry == got.by # "none" /\ got.seen # <<>> /\ got.seen[1].json

\* the age of the entry the last call found
ageSeen == got.at - got.seen[1].timestamp

\* the text of the entry the last call found has a fingerprint, is short and has no marker
fingerprinted ==
  LET t == got.seen[1].aiResponse
  IN t.patterns \cap fallbackPatterns # {} /\ t.length < FallbackLength /\ ~t.marker

\* C15: a response that a successful processUserInput stored, read by the results view
\* within 30 minutes while the backend host is the one it was fetched through and with an
\* answer that is no fallback text, is returned to the reader and stays in the cache
C15_ResultsViewGetsResponse ==
  ( /\ sawEntry
    /\ got.by = "results"
    /\ got.seen[1].host # ""
    /\ got.seen[1].host = got.live
    /\ ageSeen <= MaxAgeMs
    /\ ~fingerprinted )
  => got.data = got.seen /\ cache = got.seen

\* C16: getCachedResponse never returns an entry whose recorded host is not the live host
\* of the service, an entry stored without a host included
C16_HostMismatchRejected ==
  sawEntry /\ got.seen[1].host # got.host => got.data = <<>>

\* C17: getCachedResponse returns an entry only if it is at most 30 minutes old; an older
\* one is rejected whatever its host and text, and one of 30 minutes or less (29:59) is
\* returned when the host rule and the fallback rule permit
C17_FreshnessBoundary ==
  sawEntry =>
    /\ got.data # <<>> => ageSeen <= MaxAgeMs
    /\ ageSeen > MaxAgeMs => got.data = <<>>
    /\ ( /\ ageSeen <= MaxAgeMs
         /\ got.seen[1].host \in {"", got.host}
         /\ ~fingerprinted ) => got.data = got.seen

C17_Witness ==
  sawEntry /\ ageSeen = 1799000 /\ got.data = got.seen /\ got.seen[1].host # ""

\* C18: a getCachedResponse that rejects an entry, for its age, its host, its text or
\* because it does not parse, removes it, and the cache then stays empty and every read
\* returns nothing until something is stored, whatever the clock and the live host do
C18_RejectionClears ==
  /\ [](got.by # "none" /\ got.data = <<>> => cache = <<>>)
  /\ [][ /\ got.by # "none" /\ got'.by # "none" /\ got.data = <<>> => got'.data = <<>>
         /\ cache = <<>> /\ got'.by # "none" => got'.data = <<>> /\ cache' = <<>> ]_vars

C18_Witness ==
  /\ sawEntry /\ got.data = <<>> /\ cache = <<>>
  /\ ageSeen > MaxAgeMs /\ now > got.at /\ connectionState.currentHost # got.live

\* C19: of the entries that pass the age rule and the host rule, getCachedResponse rejects
\* exactly those whose answer has one of the three fingerprints, is shorter than 500
\* characters and has no '[INTRODUCTION]' marker
C19_FallbackRule ==
  ( /\ sawEntry
    /\ ageSeen <= MaxAgeMs
    /\ got.seen[1].host \in {"", got.host} )
  => (got.data = <<>> <=> fingerprinted)

C19_Witness ==
  /\ sawEntry /\ got.data = got.seen
  /\ got.seen[1].aiResponse = text({"personalized cannabis guidance"}, 800, FALSE)


(***************************************************************************)
(* The product search                                                      *)
(***************************************************************************)

\* C20: whatever the inventory source answers (a fetch error, a payload that is no array,
\* an empty array, an array of any size), getProductRecommendations does not throw and
\* returns 1 to 4 products, the mock products when the fetch failed or gave nothing
C20_SearchReturnsProducts ==
  search.pc = "returned" =>
    /\ ~search.threw
    /\ Len(search.products) \in 1..TopN
    /\ (search.source # "array" \/ search.items = <<>> => search.products = mock)


(***************************************************************************)
(* The search spec                                                         *)
(***************************************************************************)

\* C22: when the refinement call fails, or answers text without a JSON object or with
\* JSON that does not parse, buildProductSearchSpec does not throw and returns the
\* heuristic spec, every field as the heuristics left it
C22_RefinementFailureKeepsHeuristic ==
  built.pc = "returned" /\ built.raw.kind \in {"error", "noJson", "unparseable"} =>
    /\ ~built.threw
    /\ ~built.passed.isNull
    /\ built.spec = heuristicSpec(built.query, built.experienceLevel)

C22_Witness ==
  /\ built.pc = "returned" /\ built.connected /\ built.raw.kind = "unparseable"
  /\ built.query = {"sleep", "budget", "potent"}
  /\ built.spec.strainPreference = "indica" /\ built.spec.priceBand = "value"
  /\ built.spec.targetTHCaPercent = <<22, 30>>

\* C24: without refinement, every query that includes 'sleep' or 'anxiety' gets
\* strainPreference indica, whatever the level, and every query that includes 'budget'
\* gets priceBand value
C24_SleepMeansIndica ==
  built.pc = "returned" /\ ~built.connected =>
    /\ built.query \cap {"sleep", "anxiety"} # {} => built.spec.strainPreference = "indica"
    /\ "budget" \in built.query => built.spec.priceBand = "value"

\* C30: whatever the model answers, the spec buildProductSearchSpec returns has
\* legal.hempDerivedOnly true and legal.delta9MaxPercent 0.3, and the spec that
\* getProductRecommendations hands on is not null and has its legal object
C30_LegalAlwaysForced ==
  built.pc = "returned" =>
    /\ built.spec.legal.hempDerivedOnly
    /\ built.spec.legal.delta9MaxPercent = "0.3"
    /\ ~built.passed.isNull
    /\ built.passed.spec.legal.hempDerivedOnly
    /\ built.passed.spec.legal.delta9MaxPercent = "0.3"

C30_Witness ==
  /\ built.pc = "returned" /\ built.raw.kind = "json" /\ built.raw.parsed.hasLegal
  /\ built.raw.parsed.strainPreference = "sativa"
  /\ built.spec.strainPreference = "sativa" /\ built.spec.legal = legalRefined


(***************************************************************************)
(* The legal filter and the ranking                                        *)
(***************************************************************************)

\* an entry whose own name and description give no support for hemp-derived compliance
\* and that carries no THCa label
unsupported(it) == ~it.isNull /\ it.named /\ it.words \cap complianceWords = {} /\ ~it.thca

\* C21: under hempDerivedOnly, no entry whose own name, description and labelling give
\* no support for hemp-derived compliance is among the products the search returns
C21_UnsupportedEntriesExcluded ==
  search.pc = "returned" /\ ~search.threw /\ search.spec.legal.hempDerivedOnly =>
    \A i \in 1..Len(search.items) :
      unsupported(search.items[i]) =>
        \A j \in 1..Len(search.products) : search.products[j].id # i

\* C23: rankProducts returns its input reordered by non-increasing score, products of
\* equal score in catalog order, and under strainPreference indica an indica entry comes
\* before a sativa entry that is like it in everything else
C23_RankIsStableSort ==
  search.pc = "returned" /\ ~search.threw /\ search.source = "array" /\ search.items # <<>> =>
    LET given == search.normalized
        out == search.ranked
    IN /\ Len(out) = Len(given)
       /\ \A i \in 1..Len(given) : \E j \in 1..Len(out) : out[j] = given[i]
       /\ \A i, j \in 1..Len(out) :
            i < j => /\ score(out[i], search.spec) >= score(out[j], search.spec)
                     /\ score(out[i], search.spec) = score(out[j], search.spec) => out[i].id < out[j].id
       /\ search.spec.strainPreference = "indica" =>
            \A i, j \in 1..Len(out) :
              ( /\ out[i].strain = "Indica" /\ out[j].strain = "Sativa"
                /\ out[i].words = out[j].words /\ out[i].price = out[j].price ) => i < j

C23_Witness ==
  /\ search.pc = "returned" /\ ~search.threw /\ search.spec.strainPreference = "indica"
  /\ Len(search.ranked) = 5
  /\ search.normalized[1].strain = "Sativa" /\ search.normalized[2].strain = "Indica"
  /\ search.normalized[1].words = search.normalized[2].words
  /\ search.normalized[3] = [search.normalized[1] EXCEPT !.id = 3]
  /\ search.ranked[1].id = 2 /\ search.ranked[2].id = 1 /\ search.ranked[3].id = 3


(***************************************************************************)
(* Fallback data, the demo query and late results                          *)
(***************************************************************************)

\* C25: getFallbackData gives a value that is not empty for each of the three keys, and
\* no response processUserInput produces has an empty benefits or products field
C25_FallbackNeverEmpty ==
  /\ \A k \in Keys : getFallbackData(k) \notin {"", "emptyList"}
  /\ \A r \in Reqs :
       result[r] # <<>> /\ result[r][1].success =>
         /\ result[r][1].data.benefits \notin {"", "emptyList"}
         /\ result[r][1].data.products \notin {"", "emptyList"}


\* C26: in every state, however the calls of ensureConnection interleave, a service that
\* is connected has as currentHost the host Config has as OLLAMA_HOST, to which the
\* generate calls go
C26_LiveHostIsConfiguredHost ==
  connectionState.isConnected => connectionState.currentHost = configHost


\* C27: when processUserInput has resolved with success, for the demo query too, and no
\* other request has written, the cache holds the data it returned
C27_SuccessIsCached ==
  \A r \in Reqs :
    ( /\ result[r] # <<>> /\ result[r][1].success
      /\ \A i \in 1..Len(writes) : writes[i] = r )
    => cache = <<result[r][1].data>>


\* C28 as stated: the generated text of a merged response always comes from the first
\* attempt of callOllama
C28_OnlyFirstAttemptDelivers ==
  \A r \in Reqs :
    merged(r) /\ result[r][1].data.aiResponse = "generatedText" => call[r].attempt = 1

\* C28: a generated text is taken into the response only while the 30s timer armed at
\* fan-out runs; one that comes later changes nothing, the merged aiResponse is then the
\* fallback text of the data service and hasPartialFailure is set; the text of a second or
\* third attempt is taken only when the attempt before it failed before its own timer
C28_LateResultDropped ==
  /\ [](\A r \in Reqs :
          /\ merged(r) /\ sub[r]["aiResponse"].status = "rejected" =>
               /\ result[r][1].data.aiResponse = getFallbackData("aiResponse")
               /\ result[r][1].data.hasPartialFailure
          /\ merged(r) /\ result[r][1].data.aiResponse = "generatedText" /\ call[r].attempt > 1 =>
               call[r].err.kind # "abort")
  /\ [][\A r \in Reqs :
          /\ sub'[r]["aiResponse"] # sub[r]["aiResponse"] /\ sub'[r]["aiResponse"].value = "generatedText" =>
               timer30[r] \in 0..SafeCallTimeoutS
          /\ call[r].pc = "body" /\ call'[r].pc = "ok" /\ sub[r]["aiResponse"].status = "rejected" =>
               sub'[r] = sub[r] /\ result' = result /\ cache' = cache]_vars

C28_Witness ==
  \E r \in Reqs :
    /\ call[r].pc = "ok" /\ merged(r)
    /\ sub[r]["aiResponse"].status = "rejected"
    /\ result[r][1].data.aiResponse = "backupSystemsText"
    /\ result[r][1].data.hasPartialFailure


\* C29: getCachedResponse never returns a response whose aiResponse is one of the three
\* canned texts of getFallbackResponse; a read that finds one rejects it and removes it
C29_CannedTextNeverReturned ==
  /\ got.data # <<>> => got.data[1].aiResponse \notin cannedTexts
  /\ sawEntry /\ got.seen[1].aiResponse \in cannedTexts => got.data = <<>> /\ cache = <<>>

C29_Witness ==
  /\ sawEntry /\ got.by = "index"
  /\ got.seen[1].aiResponse = text({"full recommendation engine"}, 348, FALSE)
  /\ got.seen[1].host = got.host /\ got.host # "" /\ ageSeen = 1000
  /\ got.data = <<>> /\ cache = <<>>

====
